---- MODULE Spec2Model ----
(***************************************************************************)
(* EchoGuard detection pipeline: the analyze / batch / resend request      *)
(* handlers (backend/routers/audio.py, backend/routers/notifications.py),  *)
(* the alert state machine (backend/services/alert_service.py) and the     *)
(* websocket connection registry (backend/routers/websocket.py).           *)
(*                                                                         *)
(* The server is one asyncio event loop.  A coroutine runs without         *)
(* interruption from one await to the next, so the request in flight       *)
(* takes one step per stretch of code between two awaits (split further at *)
(* each db.commit(), which can raise), and the websocket handlers of the   *)
(* clients run only while the request is suspended.                        *)
(***************************************************************************)
EXTENDS Integers, Sequences, FiniteSets, TLC

\* ------------------------------------------------------------- bounds
NumClients == 3
MaxDetections == 1
MaxResends == 1
MaxBatch == 2
NumLabels == 2
MaxCoordinate == 1
MaxScore == 3
MaxHalfSeconds == 12

\* ---------------------------------------------------------- constants
CLASSES == <<"marine_life", "vessel", "blast_fishing", "seismic", "ambient">>

THREAT_CLASSES == {"vessel", "blast_fishing", "seismic"}

Handles == 1..NumClients

\* the labels the classifier is made to return: the first NumLabels of CLASSES
Labels == {CLASSES[i] : i \in 1..NumLabels}

VARIABLES
    settings,             \* backend.config.settings: ENABLE_ALERTS, ALERT_WEBHOOK_URL set?
    detections,           \* table detections; the id is the index
    alerts,               \* Alert objects: status (attribute), row (committed status)
    active_connections,   \* ConnectionManager.active_connections (a list)
    connection_metadata,  \* ConnectionManager.connection_metadata (a dict)
    hpc,                  \* per websocket: position of its endpoint handler
    received,             \* history: per websocket, the events the request sent to it
    published,            \* history: the (type, detection id) the request broadcast
    req,                  \* the request in flight: analyze | batch | resend
    apc,                  \* its position
    prediction,           \* ml_model.predict(features) of the clip in hand
    curDet,               \* id of the Detection of the request (0: none)
    curAlert,             \* index of the Alert send_alert is working on (0: none)
    result,               \* HTTP outcome of the request
    files,                \* batch: files still to process
    results,              \* batch: detection ids appended to results
    errors,               \* batch: number of entries appended to errors
    resends,              \* number of resend requests made
    bKind,                \* broadcast in flight: message type
    bIdx,                 \* broadcast in flight: list iterator position
    bCur,                 \* broadcast in flight: connection being sent to
    bDisconnected,        \* broadcast in flight: local list disconnected
    bStart,               \* history: active_connections when the broadcast began
    bSentTo,              \* history: connections whose send returned
    bRaised,              \* history: connections whose send raised
    bInterfered,          \* history: another task changed the registry meanwhile
    stayed,               \* history: connections registered during the whole request
    commitFault,          \* history: a db.commit() inside send_alert raised
    batchSize,            \* batch: len(files)
    progress,             \* history: how far the clip in hand got, and what raised
    posts,                \* history: how each client.post of the send_alert in hand ended
    call,                 \* a call of one of the pure functions: its input and output
    handler               \* per websocket: its endpoint and where in the endpoint it is

storeVars == <<detections, alerts>>
regVars == <<active_connections, connection_metadata>>
reqVars == <<req, prediction, curDet, curAlert, result, files, results, errors, resends>>
bVars == <<bKind, bIdx, bCur, bDisconnected, bStart, bSentTo, bRaised, bInterfered>>
histVars == <<stayed, commitFault>>

vars == <<settings, detections, alerts, active_connections, connection_metadata, hpc,
          received, published, req, apc, prediction, curDet, curAlert, result, files,
          results, errors, resends, bKind, bIdx, bCur, bDisconnected, bStart, bSentTo,
          bRaised, bInterfered, stayed, commitFault, batchSize, progress, posts, call, handler>>

\* everything but the call of a pure function
programVars == <<settings, storeVars, regVars, hpc, received, published, apc, reqVars, bVars,
                 histVars, batchSize, progress, posts, handler>>

\* ------------------------------------------------------------ helpers
Range(s) == {s[i] : i \in 1..Len(s)}

Count(s, e) == Cardinality({i \in 1..Len(s) : s[i] = e})

NoPrediction == [event_type |-> "none", is_threat |-> FALSE]

\* nothing done yet with the clip in hand, nothing raised
NoProgress == [stored |-> FALSE, extracted |-> FALSE, classified |-> FALSE, cause |-> "none"]

NoCall == [fn |-> "none", done |-> FALSE]

\* EchoGuardModel.predict: the label is the model's choice, is_threat follows from it
Predict(label) == [event_type |-> label, is_threat |-> label \in THREAT_CLASSES]

\* list.remove(x) guarded by "x in list": the first occurrence goes
ListRemove(s, w) ==
    IF w \in Range(s)
    THEN LET i == CHOOSE k \in 1..Len(s) : s[k] = w /\ \A j \in 1..(k - 1) : s[j] /= w
         IN  SubSeq(s, 1, i - 1) \o SubSeq(s, i + 1, Len(s))
    ELSE s

\* faulty variant of DictRemove: the entry of the websocket is left behind
DictRemoveKeeps(m, w) == m

\* del dict[x] guarded by "x in dict"
DictRemove(m, w) == [x \in (DOMAIN m) \ {w} |-> m[x]]

\* for conn in disconnected: self.disconnect(conn)
RECURSIVE DisconnectAll(_, _)
DisconnectAll(s, dis) ==
    IF dis = <<>> THEN s ELSE DisconnectAll(ListRemove(s, Head(dis)), Tail(dis))

RECURSIVE DictRemoveAll(_, _)
DictRemoveAll(m, dis) ==
    IF dis = <<>> THEN m ELSE DictRemoveAll(DictRemove(m, Head(dis)), Tail(dis))

\* the event loop runs another task only while the request awaits
Suspended == apc \in {"idle", "done", "saving", "batch_loop", "webhook", "sending"}

\* faulty variant of ShouldAlert: the threat flag is not looked at
ShouldAlertIgnoringThreat(pred) == settings.ENABLE_ALERTS

\* if prediction["is_threat"] and settings.ENABLE_ALERTS
ShouldAlert(pred) == pred.is_threat /\ settings.ENABLE_ALERTS

InitProgram ==
    /\ settings \in [ENABLE_ALERTS : BOOLEAN, ALERT_WEBHOOK_URL : BOOLEAN]
    /\ detections = <<>>
    /\ alerts = <<>>
    /\ active_connections = <<>>
    /\ connection_metadata = <<>>
    /\ hpc = [w \in Handles |-> "new"]
    /\ received = [w \in Handles |-> <<>>]
    /\ published = {}
    /\ req = "none"
    /\ apc = "idle"
    /\ prediction = NoPrediction
    /\ curDet = 0
    /\ curAlert = 0
    /\ result = "none"
    /\ files = 0
    /\ results = <<>>
    /\ errors = 0
    /\ resends = 0
    /\ bKind = "none"
    /\ bIdx = 0
    /\ bCur = 0
    /\ bDisconnected = <<>>
    /\ bStart = <<>>
    /\ bSentTo = {}
    /\ bRaised = {}
    /\ bInterfered = FALSE
    /\ stayed = {}
    /\ commitFault = FALSE
    /\ batchSize = 0
    /\ progress = NoProgress
    /\ posts = <<>>

\* the endpoints seen from the requests: each websocket is a client of /ws whose
\* handler is somewhere in its try block
NoHandlers ==
    [w \in Handles |-> [endpoint |-> "ws", step |-> "welcome", owed |-> FALSE, idled |-> FALSE]]

Init == InitProgram /\ call = NoCall /\ handler = NoHandlers

\* ----------------------------------------------- request entry points
\* Detection(...) of analyze_audio and analyze_audio_batch
NewDetection(pred) == [event_type |-> pred.event_type, is_threat |-> pred.is_threat]

\* Alert(detection_id=..., alert_type="webhook", status="pending", ...); sent_at defaults to NULL
\* (created is history: the commit that follows db.add(alert) succeeded)
NewAlert(detection_id, committed) ==
    [detection_id |-> detection_id, status |-> "pending",
     row |-> IF committed THEN "pending" ELSE "none", sent_at |-> "null",
     created |-> committed]

StartRequest(kind) ==
    /\ req' = kind
    /\ curAlert' = 0
    /\ stayed' = Range(active_connections)
    /\ commitFault' = FALSE
    /\ received' = [w \in Handles |-> <<>>]
    /\ published' = {}
    /\ posts' = <<>>

\* faulty variant of ErrorResponse: a storage error is logged and the call answers
\* as if it had succeeded
ErrorResponseHidesStorage(cause) == IF cause = "storage" THEN "ok" ELSE "http500"

\* except Exception as e: raise HTTPException(status_code=500, ...): the kind of
\* error the caller of analyze_audio gets for an exception of the given cause (the
\* status code; the detail is the free text of str(e), no error type or code)
ErrorResponse(cause) == "http500"

\* faulty variant of AnalyzeAudio: the clip is written before the extension is looked at
AnalyzeAudioStoresFirst ==
    /\ apc \in {"idle", "done"}
    /\ StartRequest("analyze")
    /\ \E supported \in BOOLEAN :
        IF supported
        THEN /\ apc' = "saving"
             /\ result' = "none"
             /\ progress' = NoProgress
        ELSE /\ apc' = "done"
             /\ result' = ErrorResponse("unsupported_format")
             /\ progress' = [NoProgress EXCEPT !.cause = "unsupported_format", !.stored = TRUE]
    /\ prediction' = NoPrediction
    /\ curDet' = 0
    /\ batchSize' = 0
    /\ UNCHANGED <<settings, call, handler, storeVars, regVars, hpc, files, results,
                   errors, resends, bVars>>

\* analyze_audio up to the write of the clip: file.read(), then the check of the extension
AnalyzeAudio ==
    /\ apc \in {"idle", "done"}
    /\ StartRequest("analyze")
    /\ \E supported \in BOOLEAN :
        IF supported
        THEN /\ apc' = "saving"
             /\ result' = "none"
             /\ progress' = NoProgress
        ELSE /\ apc' = "done"
             /\ result' = ErrorResponse("unsupported_format")
             /\ progress' = [NoProgress EXCEPT !.cause = "unsupported_format"]
    /\ prediction' = NoPrediction
    /\ curDet' = 0
    /\ batchSize' = 0
    /\ UNCHANGED <<settings, call, handler, storeVars, regVars, hpc, files, results,
                   errors, resends, bVars>>

\* what can happen to a clip of analyze_audio from the write of the file on
AnalyzeOutcomes ==
    {"write_fails", "decode_fails", "model_unavailable", "hydrophone_not_found",
     "commit_fails", "persisted"}

\* faulty variant of AnalyzeProcess: a clip that cannot be decoded is analyzed
\* as a vector of zeros
AnalyzeProcessZeroVector ==
    /\ apc = "saving"
    /\ req = "analyze"
    /\ \E outcome \in AnalyzeOutcomes, label \in Labels :
        /\ outcome \in {"write_fails", "decode_fails", "model_unavailable"} => label = CLASSES[1]
        /\ progress' =
              [stored     |-> outcome # "write_fails",
               extracted  |-> outcome \notin {"write_fails"},
               classified |-> outcome \notin {"write_fails", "decode_fails", "model_unavailable"},
               cause      |-> CASE outcome = "write_fails" -> "storage"
                                [] outcome = "decode_fails" -> "decode"
                                [] outcome = "model_unavailable" -> "model_unavailable"
                                [] outcome = "hydrophone_not_found" -> "hydrophone_not_found"
                                [] outcome = "commit_fails" -> "storage"
                                [] OTHER -> "none"]
        /\ IF outcome \in {"persisted", "decode_fails"}
           THEN /\ Len(detections) < MaxDetections
                /\ prediction' = Predict(label)
                /\ detections' = Append(detections, NewDetection(Predict(label)))
                /\ curDet' = Len(detections) + 1
                /\ apc' = "persisted"
                /\ result' = "none"
           ELSE /\ prediction' = IF progress'.classified THEN Predict(label) ELSE NoPrediction
                /\ detections' = detections
                /\ curDet' = 0
                /\ apc' = "done"
                /\ result' = ErrorResponse(progress'.cause)
    /\ UNCHANGED <<settings, call, handler, posts, batchSize, alerts, regVars, hpc, received, published, req,
                   curAlert, files, results, errors, resends, bVars, histVars>>

\* analyze_audio from the write of the clip to db.commit() of the Detection
AnalyzeProcess ==
    /\ apc = "saving"
    /\ req = "analyze"
    /\ \E outcome \in AnalyzeOutcomes, label \in Labels :
        /\ outcome \in {"write_fails", "decode_fails", "model_unavailable"} => label = CLASSES[1]
        /\ progress' =
              [stored     |-> outcome # "write_fails",
               extracted  |-> outcome \notin {"write_fails"},
               classified |-> outcome \notin {"write_fails", "decode_fails", "model_unavailable"},
               cause      |-> CASE outcome = "write_fails" -> "storage"
                                [] outcome = "decode_fails" -> "decode"
                                [] outcome = "model_unavailable" -> "model_unavailable"
                                [] outcome = "hydrophone_not_found" -> "hydrophone_not_found"
                                [] outcome = "commit_fails" -> "storage"
                                [] OTHER -> "none"]
        /\ IF outcome = "persisted"
           THEN /\ Len(detections) < MaxDetections
                /\ prediction' = Predict(label)
                /\ detections' = Append(detections, NewDetection(Predict(label)))
                /\ curDet' = Len(detections) + 1
                /\ apc' = "persisted"
                /\ result' = "none"
           ELSE /\ prediction' = IF progress'.classified THEN Predict(label) ELSE NoPrediction
                /\ detections' = detections
                /\ curDet' = 0
                /\ apc' = "done"
                /\ result' = ErrorResponse(progress'.cause)
    /\ UNCHANGED <<settings, call, handler, posts, batchSize, alerts, regVars, hpc, received, published, req,
                   curAlert, files, results, errors, resends, bVars, histVars>>

\* analyze_audio: "Send alert if threat detected"
AnalyzeDispatch ==
    /\ apc = "persisted"
    /\ req = "analyze"
    /\ apc' = IF ShouldAlert(prediction) THEN "send_alert" ELSE "notify"
    /\ UNCHANGED <<settings, call, handler, posts, batchSize, progress, storeVars, regVars, hpc, received, published, req, prediction,
                   curDet, curAlert, result, files, results, errors, resends, bVars, histVars>>

\* analyze_audio_batch: results = [], errors = [], then the loop over files
AnalyzeAudioBatch ==
    /\ apc \in {"idle", "done"}
    /\ StartRequest("batch")
    /\ \E n \in 1..MaxBatch :
        /\ files' = n
        /\ batchSize' = n
    /\ results' = <<>>
    /\ errors' = 0
    /\ curDet' = 0
    /\ prediction' = NoPrediction
    /\ progress' = NoProgress
    /\ result' = "none"
    /\ apc' = "batch_loop"
    /\ UNCHANGED <<settings, call, handler, storeVars, regVars, hpc, resends, bVars>>

\* what can happen to one file of analyze_audio_batch before send_alert
BatchOutcomes ==
    {"invalid", "decode_fails", "model_unavailable", "write_fails", "commit_fails", "persisted"}

\* one iteration of the loop of analyze_audio_batch, up to the call of send_alert:
\* validate_audio_file, preprocess_audio, predict, the write of the clip, the Detection
BatchItem ==
    /\ apc = "batch_loop"
    /\ files > 0
    /\ \E outcome \in BatchOutcomes, label \in Labels :
        /\ progress' =
              [stored     |-> outcome \in {"commit_fails", "persisted"},
               extracted  |-> outcome # "invalid",
               classified |-> outcome \in {"write_fails", "commit_fails", "persisted"},
               cause      |-> CASE outcome = "invalid" -> "unsupported_format"
                                [] outcome = "decode_fails" -> "decode"
                                [] outcome = "model_unavailable" -> "model_unavailable"
                                [] outcome \in {"write_fails", "commit_fails"} -> "storage"
                                [] OTHER -> "none"]
        /\ IF outcome = "persisted"
           THEN /\ Len(detections) < MaxDetections
                /\ prediction' = Predict(label)
                /\ detections' = Append(detections, NewDetection(Predict(label)))
                /\ curDet' = Len(detections) + 1
                /\ results' = Append(results, Len(detections) + 1)
                /\ errors' = errors
                /\ IF ShouldAlert(Predict(label))
                   THEN apc' = "send_alert" /\ files' = files
                   ELSE apc' = "batch_loop" /\ files' = files - 1
           ELSE /\ label = CLASSES[1]
                /\ errors' = errors + 1
                /\ files' = files - 1
                /\ apc' = "batch_loop"
                /\ UNCHANGED <<prediction, detections, curDet, results>>
    /\ UNCHANGED <<settings, call, handler, posts, batchSize, alerts, regVars, hpc, received, published, req, curAlert,
                   result, resends, bVars, stayed, commitFault>>

\* analyze_audio_batch: the return after the loop
BatchReturn ==
    /\ apc = "batch_loop"
    /\ files = 0
    /\ apc' = "done"
    /\ result' = "ok"
    /\ UNCHANGED <<settings, call, handler, posts, batchSize, progress, storeVars, regVars, hpc, received, published, req, prediction,
                   curDet, curAlert, files, results, errors, resends, bVars, histVars>>

\* resend_alert up to the call of send_alert
ResendAlert ==
    /\ apc \in {"idle", "done"}
    /\ resends < MaxResends
    /\ resends' = resends + 1
    /\ StartRequest("resend")
    /\ \E detection_id \in 1..(Len(detections) + 1) :
        /\ curDet' = IF detection_id <= Len(detections) THEN detection_id ELSE 0
        /\ IF detection_id > Len(detections)
           THEN apc' = "done" /\ result' = "http404"
           ELSE IF ~detections[detection_id].is_threat
                THEN apc' = "done" /\ result' = "http400"
                ELSE apc' = "send_alert" /\ result' = "none"
    /\ prediction' = NoPrediction
    /\ progress' = NoProgress
    /\ batchSize' = 0
    /\ UNCHANGED <<settings, call, handler, storeVars, regVars, hpc, files, results,
                   errors, bVars>>

\* ---------------------------------------------- AlertService.send_alert
\* how each caller goes on when send_alert returns or raises
SendAlertEnds(raised) ==
    CASE req = "analyze" ->
            /\ apc' = IF raised THEN "done" ELSE "notify"
            /\ result' = IF raised THEN "http500" ELSE result
            /\ UNCHANGED <<files, errors>>
      [] req = "batch" ->
            /\ apc' = "batch_loop"
            /\ files' = files - 1
            /\ errors' = IF raised THEN errors + 1 ELSE errors
            /\ result' = result
      [] req = "resend" ->
            /\ apc' = "done"
            /\ result' = IF raised THEN "http500" ELSE "ok"
            /\ UNCHANGED <<files, errors>>

\* faulty variant of SendAlertCreate: the webhook is called before the commit of
\* the pending Alert is known to have succeeded
SendAlertCreateDeliversFirst ==
    /\ apc = "send_alert"
    /\ \E commit_ok \in BOOLEAN :
        /\ alerts' = Append(alerts, NewAlert(curDet, commit_ok))
        /\ commitFault' = (commitFault \/ ~commit_ok)
        /\ apc' = IF settings.ALERT_WEBHOOK_URL THEN "webhook" ELSE "mark_sent"
    /\ curAlert' = Len(alerts) + 1
    /\ posts' = <<>>
    /\ UNCHANGED <<settings, call, handler, batchSize, progress, detections, regVars, hpc, received, published, req, prediction,
                   curDet, result, files, results, errors, resends, bVars, stayed>>

\* alert = Alert(...); db.add(alert); db.commit(); if settings.ALERT_WEBHOOK_URL: ...
SendAlertCreate ==
    /\ apc = "send_alert"
    /\ \E commit_ok \in BOOLEAN :
        /\ alerts' = Append(alerts, NewAlert(curDet, commit_ok))
        /\ commitFault' = (commitFault \/ ~commit_ok)
        /\ apc' = IF ~commit_ok THEN "alert_except"
                  ELSE IF settings.ALERT_WEBHOOK_URL THEN "webhook" ELSE "mark_sent"
    /\ curAlert' = Len(alerts) + 1
    /\ posts' = <<>>
    /\ UNCHANGED <<settings, call, handler, batchSize, progress, detections, regVars, hpc, received, published, req, prediction,
                   curDet, result, files, results, errors, resends, bVars, stayed>>

\* _send_webhook: client.post answered 2xx
WebhookOk ==
    /\ apc = "webhook"
    /\ apc' = "mark_sent"
    /\ posts' = Append(posts, "2xx")
    /\ UNCHANGED <<settings, call, handler, batchSize, progress, storeVars, regVars, hpc, received, published, req, prediction,
                   curDet, curAlert, result, files, results, errors, resends, bVars, histVars>>

\* faulty variant of WebhookFails: send_alert lets the webhook's exception through
WebhookFailsPropagates ==
    /\ apc = "webhook"
    /\ SendAlertEnds(TRUE)
    /\ UNCHANGED <<settings, call, handler, posts, batchSize, progress, storeVars, regVars, hpc, received, published, req, prediction,
                   curDet, curAlert, results, resends, bVars, histVars>>

\* how a client.post can fail: no connection, a status that raise_for_status()
\* rejects, no answer within timeout=10.0
PostFailures == {"unreachable", "non_2xx", "timeout"}

\* _send_webhook: client.post raised (unreachable, timeout) or raise_for_status() did
WebhookFails ==
    /\ apc = "webhook"
    /\ apc' = "alert_except"
    /\ \E failure \in PostFailures : posts' = Append(posts, failure)
    /\ UNCHANGED <<settings, call, handler, batchSize, progress, storeVars, regVars, hpc, received, published, req, prediction,
                   curDet, curAlert, result, files, results, errors, resends, bVars, histVars>>

\* faulty variant of MarkSent: every Alert of the Detection is marked, as an
\* update by detection_id would do
MarkSentAllOfDetection ==
    /\ apc = "mark_sent"
    /\ \E commit_ok \in BOOLEAN :
        /\ alerts' = [i \in 1..Len(alerts) |->
                         IF alerts[i].detection_id = alerts[curAlert].detection_id
                         THEN [alerts[i] EXCEPT !.status = "sent",
                                                !.row = IF commit_ok THEN "sent" ELSE @]
                         ELSE alerts[i]]
        /\ commitFault' = (commitFault \/ ~commit_ok)
        /\ IF commit_ok
           THEN SendAlertEnds(FALSE)
           ELSE apc' = "alert_except" /\ UNCHANGED <<result, files, errors>>
    /\ UNCHANGED <<settings, call, handler, posts, batchSize, progress, detections, regVars, hpc, received, published, req, prediction,
                   curDet, curAlert, results, resends, bVars, stayed>>

\* alert.status = "sent"; db.commit()
MarkSent ==
    /\ apc = "mark_sent"
    /\ \E commit_ok \in BOOLEAN :
        /\ alerts' = [alerts EXCEPT ![curAlert].status = "sent",
                                    ![curAlert].row = IF commit_ok THEN "sent" ELSE @]
        /\ commitFault' = (commitFault \/ ~commit_ok)
        /\ IF commit_ok
           THEN SendAlertEnds(FALSE)
           ELSE apc' = "alert_except" /\ UNCHANGED <<result, files, errors>>
    /\ UNCHANGED <<settings, call, handler, posts, batchSize, progress, detections, regVars, hpc, received, published, req, prediction,
                   curDet, curAlert, results, resends, bVars, stayed>>

\* faulty variant of AlertExcept: the handler rolls the request's Detection back
AlertExceptRollsBack ==
    /\ apc = "alert_except"
    /\ \E commit_ok \in BOOLEAN :
        /\ alerts' = [alerts EXCEPT ![curAlert].status = "failed",
                                    ![curAlert].row = IF commit_ok THEN "failed" ELSE @]
        /\ commitFault' = (commitFault \/ ~commit_ok)
        /\ SendAlertEnds(~commit_ok)
    /\ detections' = SubSeq(detections, 1, curDet - 1)
    /\ UNCHANGED <<settings, call, handler, posts, batchSize, progress, regVars, hpc, received, published, req, prediction,
                   curDet, curAlert, results, resends, bVars, stayed>>

\* except Exception: if 'alert' in locals(): alert.status = "failed"; db.commit()
AlertExcept ==
    /\ apc = "alert_except"
    /\ \E commit_ok \in BOOLEAN :
        /\ alerts' = [alerts EXCEPT ![curAlert].status = "failed",
                                    ![curAlert].row = IF commit_ok THEN "failed" ELSE @]
        /\ commitFault' = (commitFault \/ ~commit_ok)
        /\ SendAlertEnds(~commit_ok)
    /\ UNCHANGED <<settings, call, handler, posts, batchSize, progress, detections, regVars, hpc, received, published, req, prediction,
                   curDet, curAlert, results, resends, bVars, stayed>>

\* ------------------------------------------ ConnectionManager.broadcast
\* broadcast_detection / broadcast_alert: disconnected = []; the for loop takes
\* its first connection and awaits connection.send_json(message)
BeginBroadcast(kind) ==
    /\ published' = published \cup {<<kind, curDet>>}
    /\ bKind' = kind
    /\ bDisconnected' = <<>>
    /\ bStart' = active_connections
    /\ bSentTo' = {}
    /\ bRaised' = {}
    /\ bInterfered' = FALSE
    /\ IF Len(active_connections) > 0
       THEN bIdx' = 1 /\ bCur' = active_connections[1] /\ apc' = "sending"
       ELSE bIdx' = 0 /\ bCur' = 0 /\ apc' = "cleanup"

\* the list iterator of "for connection in self.active_connections": it keeps an
\* index into the live list and stops when the index reaches the list's length
NextConnection ==
    IF bIdx < Len(active_connections)
    THEN bIdx' = bIdx + 1 /\ bCur' = active_connections[bIdx + 1] /\ apc' = "sending"
    ELSE bIdx' = bIdx /\ bCur' = 0 /\ apc' = "cleanup"

\* analyze_audio: await manager.broadcast_detection(detection_data)
BroadcastDetection ==
    /\ apc = "notify"
    /\ BeginBroadcast("new_detection")
    /\ UNCHANGED <<settings, call, handler, posts, batchSize, progress, storeVars, regVars, hpc, received, reqVars, histVars>>

\* analyze_audio: if prediction["is_threat"]: await manager.broadcast_alert(...)
BroadcastAlert ==
    /\ apc = "notify_alert"
    /\ BeginBroadcast("alert")
    /\ UNCHANGED <<settings, call, handler, posts, batchSize, progress, storeVars, regVars, hpc, received, reqVars, histVars>>

\* await connection.send_json(message) returns
SendReturns ==
    /\ apc = "sending"
    /\ received' = [received EXCEPT ![bCur] = Append(@, <<bKind, curDet>>)]
    /\ bSentTo' = bSentTo \cup {bCur}
    /\ NextConnection
    /\ UNCHANGED <<settings, call, handler, posts, batchSize, progress, storeVars, regVars, hpc, published, reqVars, bKind,
                   bDisconnected, bStart, bRaised, bInterfered, histVars>>

\* faulty variant of SendRaises: the try/except is around the loop, a raise ends it
SendRaisesEndsLoop ==
    /\ apc = "sending"
    /\ bDisconnected' = Append(bDisconnected, bCur)
    /\ bRaised' = bRaised \cup {bCur}
    /\ bIdx' = bIdx
    /\ bCur' = 0
    /\ apc' = "cleanup"
    /\ UNCHANGED <<settings, call, handler, posts, batchSize, progress, storeVars, regVars, hpc, received, published, reqVars, bKind,
                   bStart, bSentTo, bInterfered, histVars>>

\* await connection.send_json(message) raises: disconnected.append(connection)
SendRaises ==
    /\ apc = "sending"
    /\ bDisconnected' = Append(bDisconnected, bCur)
    /\ bRaised' = bRaised \cup {bCur}
    /\ NextConnection
    /\ UNCHANGED <<settings, call, handler, posts, batchSize, progress, storeVars, regVars, hpc, received, published, reqVars, bKind,
                   bStart, bSentTo, bInterfered, histVars>>

\* "Clean up disconnected clients", then the caller goes on; the locals of the
\* finished broadcast call are gone
BroadcastCleanup ==
    /\ apc = "cleanup"
    /\ active_connections' = DisconnectAll(active_connections, bDisconnected)
    /\ connection_metadata' = DictRemoveAll(connection_metadata, bDisconnected)
    /\ stayed' = stayed \ Range(bDisconnected)
    /\ IF bKind = "new_detection" /\ prediction.is_threat
       THEN apc' = "notify_alert" /\ result' = result
       ELSE apc' = "done" /\ result' = "ok"
    /\ bKind' = "none"
    /\ bIdx' = 0
    /\ bCur' = 0
    /\ bDisconnected' = <<>>
    /\ bStart' = <<>>
    /\ bSentTo' = {}
    /\ bRaised' = {}
    /\ bInterfered' = FALSE
    /\ UNCHANGED <<settings, call, handler, posts, batchSize, progress, storeVars, hpc, received, published, req, prediction, curDet,
                   curAlert, files, results, errors, resends, commitFault>>

\* ------------------------------------------------- websocket endpoints
\* websocket_endpoint / websocket_detections: await manager.connect(websocket)
\* (websocket objects are numbered in the order they connect)
Connect(w) ==
    /\ Suspended
    /\ hpc[w] = "new"
    /\ \A v \in Handles : v < w => hpc[v] /= "new"
    /\ active_connections' = Append(active_connections, w)
    /\ connection_metadata' =
          [x \in (DOMAIN connection_metadata) \cup {w} |->
              IF x = w THEN Len(active_connections) + 1 ELSE connection_metadata[x]]
    /\ hpc' = [hpc EXCEPT ![w] = "running"]
    /\ bInterfered' = (bInterfered \/ apc = "sending")
    /\ UNCHANGED <<settings, call, handler, posts, batchSize, progress, storeVars, received, published, apc, reqVars, bKind, bIdx,
                   bCur, bDisconnected, bStart, bSentTo, bRaised, histVars>>

\* except WebSocketDisconnect / except Exception: manager.disconnect(websocket)
HandlerDisconnect(w) ==
    /\ Suspended
    /\ hpc[w] = "running"
    /\ active_connections' = ListRemove(active_connections, w)
    /\ connection_metadata' = DictRemove(connection_metadata, w)
    /\ hpc' = [hpc EXCEPT ![w] = "ended"]
    /\ stayed' = stayed \ {w}
    /\ bInterfered' = (bInterfered \/ apc = "sending")
    /\ UNCHANGED <<settings, call, handler, posts, batchSize, progress, storeVars, received, published, apc, reqVars, bKind, bIdx,
                   bCur, bDisconnected, bStart, bSentTo, bRaised, commitFault>>

\* ------------------------------------------------------ specification
\* the steps of the request that the server takes by itself
Request ==
    \/ AnalyzeAudio
    \/ AnalyzeProcess
    \/ AnalyzeDispatch
    \/ AnalyzeAudioBatch
    \/ BatchItem
    \/ BatchReturn
    \/ ResendAlert
    \/ SendAlertCreate
    \/ WebhookOk
    \/ WebhookFails
    \/ MarkSent
    \/ AlertExcept
    \/ BroadcastDetection
    \/ BroadcastAlert
    \/ BroadcastCleanup

\* the end of an awaited send_json: it is the peer that lets it end
SendCompletes == SendReturns \/ SendRaises

Clients == \E w \in Handles : Connect(w) \/ HandlerDisconnect(w)

Next == Request \/ SendCompletes \/ Clients

Spec == Init /\ [][Next]_vars

\* The event loop runs every coroutine that is ready to run, and client.post has
\* a timeout, so the request always takes its next step; only a send_json that
\* is awaited has no timeout and may stay pending for ever.
FairSpec == Spec /\ WF_vars(Request)

\* ------------------------------------------------- the pure functions
\* Functions of the pipeline that read and write no state.  A call is a record
\* of the function's name, its arguments and, once it is done, its result.

\* an Optional value: None is <<>>, the value v is <<v>>
None == <<>>

Some(v) == <<v>>

\* Python truth value of an Optional[float]: None and 0.0 are false
Truthy(x) == x # None /\ x # Some(0)

\* Python "a or b"
PyOr(a, b) == IF Truthy(a) THEN a ELSE b

Coordinates == {Some(c) : c \in (0 - MaxCoordinate)..MaxCoordinate}

OptCoordinates == Coordinates \cup {None}

\* the row found for hydrophone_id, or None when no hydrophone_id is given
Hydrophones ==
    {None} \cup {Some([latitude |-> la, longitude |-> lo]) : la \in OptCoordinates, lo \in OptCoordinates}

\* latitude=latitude or (hydrophone.latitude if hydrophone else None), same for longitude
DetectionPosition(latitude, longitude, hydrophone) ==
    [latitude  |-> PyOr(latitude, IF hydrophone # None THEN hydrophone[1].latitude ELSE None),
     longitude |-> PyOr(longitude, IF hydrophone # None THEN hydrophone[1].longitude ELSE None)]

\* the output of the network for one clip: one score for each class
ScoreVectors == [1..Len(CLASSES) -> 1..MaxScore]

\* np.argmax: the first index of the greatest score
Argmax(scores) ==
    CHOOSE i \in 1..Len(scores) :
        /\ \A j \in 1..Len(scores) : scores[j] <= scores[i]
        /\ \A j \in 1..(i - 1) : scores[j] < scores[i]

\* faulty variant of EchoGuardModelPredict: a threat label counts only when its
\* score is high enough
EchoGuardModelPredictByConfidence(scores) ==
    LET class_idx == Argmax(scores)
    IN  [event_type |-> CLASSES[class_idx],
         confidence |-> scores[class_idx],
         is_threat  |-> CLASSES[class_idx] \in THREAT_CLASSES /\ scores[class_idx] >= MaxScore]

\* EchoGuardModel.predict from the output of the network on
EchoGuardModelPredict(scores) ==
    LET class_idx == Argmax(scores)
    IN  [event_type |-> CLASSES[class_idx],
         confidence |-> scores[class_idx],
         is_threat  |-> CLASSES[class_idx] \in THREAT_CLASSES]

SAMPLE_RATE == 22050
N_MELS == 128
N_MFCC == 13
HOP_LENGTH == 512
FRAMES == 87
MODEL_INPUT_LENGTH == 12000

WaveformLengths == {(k * SAMPLE_RATE) \div 2 : k \in 1..MaxHalfSeconds}

Min(a, b) == IF a < b THEN a ELSE b

\* number of frames librosa makes of a waveform (centered frames, one per hop)
FrameCount(samples) == 1 + (samples \div HOP_LENGTH)

\* target_size = 128 * 87 + 13 * 87 + 87 * 3
target_size == N_MELS * FRAMES + N_MFCC * FRAMES + FRAMES * 3

\* AudioProcessor.extract_features, as the length of the vector it returns
ExtractFeaturesLength(samples) ==
    LET frames == FrameCount(samples)
        feature_vector == Min(N_MELS * frames, N_MELS * FRAMES)
                          + Min(N_MFCC * frames, N_MFCC * FRAMES)
                          + 3 * Min(frames, FRAMES)
    IN  IF feature_vector < target_size
        THEN feature_vector + (target_size - feature_vector)
        ELSE target_size

\* EchoGuardModel.predict: "Pad or trim to 12000", as the length it leaves
FitToModelInput(length) ==
    IF length # MODEL_INPUT_LENGTH
    THEN IF length < MODEL_INPUT_LENGTH
         THEN length + (MODEL_INPUT_LENGTH - length)
         ELSE MODEL_INPUT_LENGTH
    ELSE length

\* the registries a ConnectionManager can hold: a list of distinct websockets,
\* and for each of them the client id it was given
Registries ==
    UNION { { [active_connections |-> s, connection_metadata |-> m, raised |-> FALSE] :
                 m \in [Range(s) -> 1..NumClients] } :
            s \in { t \in UNION {[1..n -> Handles] : n \in 0..NumClients} :
                       \A i, j \in DOMAIN t : t[i] = t[j] => i = j } }

\* faulty variant of Disconnect: list.remove and del without the membership tests
DisconnectUnguarded(registry, websocket) ==
    [active_connections  |-> ListRemove(registry.active_connections, websocket),
     connection_metadata |-> DictRemove(registry.connection_metadata, websocket),
     raised              |-> registry.raised \/ websocket \notin Range(registry.active_connections)]

\* ConnectionManager.disconnect (raised: the call ended with an exception)
Disconnect(registry, websocket) ==
    [active_connections  |-> ListRemove(registry.active_connections, websocket),
     connection_metadata |-> DictRemove(registry.connection_metadata, websocket),
     raised              |-> registry.raised]

DisconnectCalls ==
    [fn : {"disconnect"}, done : {FALSE}, registry : Registries, websocket : Handles,
     out : {[once  |-> [active_connections |-> <<>>, connection_metadata |-> <<>>, raised |-> FALSE],
             twice |-> [active_connections |-> <<>>, connection_metadata |-> <<>>, raised |-> FALSE]]}]

PositionCalls ==
    [fn : {"position"}, done : {FALSE}, latitude : OptCoordinates, longitude : OptCoordinates,
     hydrophone : Hydrophones, out : {[latitude |-> None, longitude |-> None]}]

PredictCalls ==
    [fn : {"predict"}, done : {FALSE}, scores : ScoreVectors,
     out : {[event_type |-> "none", confidence |-> 0, is_threat |-> FALSE]}]

ExtractCalls ==
    [fn : {"extract_features"}, done : {FALSE}, samples : WaveformLengths,
     out : {[length |-> 0, model_length |-> 0]}]

FunctionInit ==
    /\ InitProgram
    /\ handler = NoHandlers
    /\ \/ call \in PositionCalls
       \/ call \in PredictCalls
       \/ call \in ExtractCalls
       \/ call \in DisconnectCalls

\* the position of the Detection that analyze_audio builds
CallDetectionPosition ==
    /\ call.fn = "position"
    /\ ~call.done
    /\ call' = [call EXCEPT !.done = TRUE,
                            !.out = DetectionPosition(call.latitude, call.longitude, call.hydrophone)]
    /\ UNCHANGED programVars

CallPredict ==
    /\ call.fn = "predict"
    /\ ~call.done
    /\ call' = [call EXCEPT !.done = TRUE, !.out = EchoGuardModelPredict(call.scores)]
    /\ UNCHANGED programVars

\* preprocess_audio followed by predict: the vector the extractor returns and
\* the vector the network is given
CallExtractFeatures ==
    /\ call.fn = "extract_features"
    /\ ~call.done
    /\ call' = [call EXCEPT !.done = TRUE,
                            !.out = [length       |-> ExtractFeaturesLength(call.samples),
                                     model_length |-> FitToModelInput(ExtractFeaturesLength(call.samples))]]
    /\ UNCHANGED programVars

\* manager.disconnect(websocket), and the same call once more
CallDisconnect ==
    /\ call.fn = "disconnect"
    /\ ~call.done
    /\ call' = [call EXCEPT !.done = TRUE,
                            !.out = [once  |-> Disconnect(call.registry, call.websocket),
                                     twice |-> Disconnect(Disconnect(call.registry, call.websocket),
                                                          call.websocket)]]
    /\ UNCHANGED programVars

FunctionNext == CallDetectionPosition \/ CallPredict \/ CallExtractFeatures \/ CallDisconnect

FunctionSpec == FunctionInit /\ [][FunctionNext]_vars

\* ------------------------------------------- the websocket endpoints
\* websocket_endpoint (/ws) and websocket_detections (/ws/detections) step by
\* step, with no request in flight.  handler[w].step is the await the handler of
\* w is at once it runs: the welcome message, receive_text, the pong, the
\* keepalive.  owed: a ping was handled and no pong sent since; idled: the 30 s
\* timeout of receive_text has fired on this connection.

\* everything the endpoints leave alone
requestVars == <<settings, storeVars, received, published, apc, reqVars, bVars, histVars,
                 batchSize, progress, posts, call>>

Endpoints == {"ws", "ws_detections"}

\* (the settings are the defaults of config.py; no endpoint reads them)
HandlerInit ==
    /\ InitProgram
    /\ settings = [ENABLE_ALERTS |-> TRUE, ALERT_WEBHOOK_URL |-> FALSE]
    /\ call = NoCall
    /\ handler \in [Handles -> [endpoint : Endpoints, step : {"welcome"}, owed : {FALSE},
                               idled : {FALSE}]]

\* the handler awaits send_personal_message
SendingPersonal(w) ==
    /\ hpc[w] = "running"
    /\ handler[w].step \in {"welcome", "pong", "keepalive"}

\* send_personal_message: await websocket.send_json(message) returns
SendPersonalReturns(w) ==
    /\ SendingPersonal(w)
    /\ handler' = [handler EXCEPT ![w].step = "receive",
                                  ![w].owed = IF handler[w].step = "pong" THEN FALSE ELSE @]
    /\ UNCHANGED <<requestVars, regVars, hpc>>

\* send_personal_message: send_json raises; except Exception:
\* self.disconnect(websocket), and the handler goes on to receive_text
SendPersonalFails(w) ==
    /\ SendingPersonal(w)
    /\ active_connections' = ListRemove(active_connections, w)
    /\ connection_metadata' = DictRemove(connection_metadata, w)
    /\ handler' = [handler EXCEPT ![w].step = "receive"]
    /\ UNCHANGED <<requestVars, hpc>>

\* receive_text returns {"type": "ping"}: /ws answers with a pong, /ws/detections
\* drops what it receives and awaits the next message
ReceivePing(w) ==
    /\ hpc[w] = "running"
    /\ handler[w].step = "receive"
    /\ handler' = [handler EXCEPT ![w].owed = TRUE,
                                  ![w].step = IF handler[w].endpoint = "ws" THEN "pong" ELSE @]
    /\ UNCHANGED <<requestVars, regVars, hpc>>

\* asyncio.TimeoutError after 30 s without a message: the keepalive is sent
IdleTimeout(w) ==
    /\ hpc[w] = "running"
    /\ handler[w].step = "receive"
    /\ handler' = [handler EXCEPT ![w].step = "keepalive", ![w].idled = TRUE]
    /\ UNCHANGED <<requestVars, regVars, hpc>>

\* receive_text raises WebSocketDisconnect (or handling the message raises)
ReceiveDisconnect(w) ==
    /\ handler[w].step = "receive"
    /\ HandlerDisconnect(w)

\* the handler's task is cancelled while it awaits: asyncio.CancelledError is no
\* Exception, neither except clause of the endpoint catches it and
\* manager.disconnect is not called (where CancelledError is an Exception, on
\* Python before 3.8, the handler ends as in HandlerDisconnect)
HandlerCancelled(w) ==
    /\ hpc[w] = "running"
    /\ \/ /\ hpc' = [hpc EXCEPT ![w] = "ended"]
          /\ UNCHANGED <<requestVars, regVars, handler>>
       \/ HandlerDisconnect(w)

HandlerNext ==
    \E w \in Handles :
        \/ Connect(w)
        \/ SendPersonalReturns(w)
        \/ SendPersonalFails(w)
        \/ ReceivePing(w)
        \/ IdleTimeout(w)
        \/ ReceiveDisconnect(w)
        \/ HandlerCancelled(w)

HandlerSpec == HandlerInit /\ [][HandlerNext]_vars

\* ------------------------------------------------------------- claims
AlertsOf(d) == {i \in 1..Len(alerts) : alerts[i].detection_id = d}

\* a websocket whose handler still runs although a broadcast removed it
DroppedByBroadcast(w) == hpc[w] = "running" /\ w \notin Range(active_connections)

\* C1: alert state monotonicity -- the status of an Alert changes only away from
\* pending: once it is sent or failed it is never assigned another status
AlertStateMonotonicity ==
    [][\A i \in 1..Len(alerts) :
          alerts'[i].status /= alerts[i].status => alerts[i].status = "pending"]_vars

\* C2: for every Alert record, status = sent if and only if sent_at is set
SentIffSentAt ==
    \A i \in 1..Len(alerts) : (alerts[i].row = "sent") <=> (alerts[i].sent_at /= "null")

\* C3: broadcast isolation -- when exactly one subscriber's send raises and no
\* other task touches the registry, every other subscriber of the list is sent
\* the message and the cleanup leaves exactly the list without the one that raised
BroadcastIsolation ==
    [][(apc = "cleanup" /\ ~bInterfered /\ Cardinality(bRaised) = 1)
          => /\ bSentTo = Range(bStart) \ bRaised
             /\ active_connections' = SelectSeq(bStart, LAMBDA w : w \notin bRaised)
             /\ DOMAIN connection_metadata' = Range(bStart) \ bRaised]_vars

\* C3 witness: of three subscribers the middle one raised; the two others were
\* sent the event and are the registry, the middle one is out of it
BroadcastIsolationWitness ==
    /\ req = "analyze"
    /\ apc = "done"
    /\ active_connections = <<1, 3>>
    /\ DroppedByBroadcast(2)
    /\ stayed = {1, 3}
    /\ received[1] = <<<<"new_detection", curDet>>>>
    /\ received[3] = <<<<"new_detection", curDet>>>>
    /\ received[2] = <<>>

\* C4: publish delivery under interleaving -- every subscriber registered when
\* the broadcast began and still registered when it ends was sent the event
PublishReachesAllRegistered ==
    [][apc = "cleanup"
          => \A w \in Range(bStart) \cap Range(active_connections') : w \in bSentTo]_vars

\* C5: a slow subscriber does not block the others -- if the send to k stays
\* pending for ever, every other subscriber that stays registered is sent the event
SlowSubscriberDoesNotBlock ==
    \A k \in Handles : \A w \in Handles \ {k} :
        <>[](apc = "sending" /\ bCur = k /\ w \in Range(active_connections))
            => <>[](w \in bSentTo)

\* C6: detection durability precedes notification -- from the moment analyze_audio
\* goes on to alert dispatch and broadcast until it ends, whatever fails, the
\* Detection of the call is in the store with the fields it was created with
DetectionDurability ==
    (/\ req = "analyze"
     /\ \/ apc \in {"persisted", "send_alert", "webhook", "mark_sent", "alert_except",
                    "notify", "sending", "cleanup", "notify_alert"}
        \/ apc = "done" /\ curDet /= 0)
        => /\ curDet \in 1..Len(detections)
           /\ detections[curDet] = NewDetection(prediction)

\* C6 witness: the webhook failed and a subscriber's send raised, the call is over
DetectionDurabilityWitness ==
    /\ req = "analyze"
    /\ apc = "done"
    /\ curAlert /= 0
    /\ alerts[curAlert].status = "failed"
    /\ \E w \in Handles : DroppedByBroadcast(w)
    /\ detections[curDet] = NewDetection(prediction)

ThreatFanOut ==
    (/\ req = "analyze"
     /\ apc = "done"
     /\ result = "ok"
     /\ prediction.is_threat
     /\ settings.ENABLE_ALERTS)
        => /\ Cardinality(AlertsOf(curDet)) = 1
           /\ \A w \in stayed :
                 /\ Count(received[w], <<"alert", curDet>>) = 1
                 /\ Count(received[w], <<"new_detection", curDet>>) = 1

\* C9: no alert for a non-threat -- every Alert and every alert event is about a
\* Detection whose is_threat is true, and a non-threat analyze publishes
\* new_detection events only
NoAlertForNonThreat ==
    /\ \A i \in 1..Len(alerts) :
          /\ alerts[i].detection_id \in 1..Len(detections)
          /\ detections[alerts[i].detection_id].is_threat
    /\ \A e \in published :
          e[1] = "alert" => (e[2] \in 1..Len(detections) /\ detections[e[2]].is_threat)
    /\ \A w \in Handles : \A i \in 1..Len(received[w]) :
          received[w][i][1] = "alert" => detections[received[w][i][2]].is_threat
    /\ (req = "analyze" /\ ~prediction.is_threat)
          => \A e \in published : e[1] = "new_detection"

\* C9 witness: a non-threat clip analyzed while alerts are enabled: one
\* new_detection event to a subscriber, no Alert
NoAlertForNonThreatWitness ==
    /\ req = "analyze"
    /\ apc = "done"
    /\ result = "ok"
    /\ settings.ENABLE_ALERTS
    /\ ~detections[curDet].is_threat
    /\ published = {<<"new_detection", curDet>>}
    /\ \E w \in Handles : received[w] = <<<<"new_detection", curDet>>>>
    /\ alerts = <<>>

\* C10: batch items follow the single-clip contract -- for every Detection a
\* finished analyze_audio_batch persisted, a new_detection event was published,
\* and for a threat an alert was dispatched and an alert event published
BatchFollowsSingleClipContract ==
    (req = "batch" /\ apc = "done")
        => \A d \in Range(results) :
              /\ <<"new_detection", d>> \in published
              /\ ShouldAlert(detections[d]) => AlertsOf(d) /= {}
              /\ detections[d].is_threat => <<"alert", d>> \in published

\* C11: event order for a threat -- within one analyze_audio call on a threat
\* clip the alert event is published before the new_detection event of the same
\* detection, and every subscriber that got both got the alert event first
AlertEventBeforeDetectionEvent ==
    (req = "analyze" /\ prediction.is_threat /\ curDet > 0)
        => /\ <<"new_detection", curDet>> \in published => <<"alert", curDet>> \in published
           /\ \A w \in Handles : \A i, j \in 1..Len(received[w]) :
                 (received[w][i] = <<"new_detection", curDet>> /\ received[w][j] = <<"alert", curDet>>)
                     => j < i

\* C12: position precedence -- for every explicit request position (absent or
\* any value, 0 included) and every hydrophone (absent, without position, with
\* position), each coordinate of the Detection is the explicit one when it is
\* given, else the hydrophone's when a hydrophone is given, else null
PositionPrecedence ==
    (call.fn = "position" /\ call.done)
        => /\ call.out.latitude =
                 IF call.latitude # None THEN call.latitude
                 ELSE IF call.hydrophone # None THEN call.hydrophone[1].latitude
                 ELSE None
           /\ call.out.longitude =
                 IF call.longitude # None THEN call.longitude
                 ELSE IF call.hydrophone # None THEN call.hydrophone[1].longitude
                 ELSE None

\* C13: an unsupported format is rejected before any processing -- analyze_audio
\* fails on it, and no clip is stored, no feature extraction or classification
\* runs, no Detection or Alert is created and no event is published
UnsupportedFormatRejected ==
    /\ [](  (req = "analyze" /\ progress.cause = "unsupported_format")
               => /\ apc = "done"
                  /\ result \notin {"ok", "none"}
                  /\ ~progress.stored
                  /\ ~progress.extracted
                  /\ ~progress.classified
                  /\ curDet = 0
                  /\ curAlert = 0
                  /\ published = {}
                  /\ \A w \in Handles : received[w] = <<>>)
    /\ [][ (req' = "analyze" /\ progress'.cause = "unsupported_format")
               => (detections' = detections /\ alerts' = alerts) ]_vars

\* C13 witness: a clip of unsupported format was rejected while a Detection of
\* an earlier request is in the store
UnsupportedFormatRejectedWitness ==
    /\ req = "analyze"
    /\ progress.cause = "unsupported_format"
    /\ apc = "done"
    /\ result = "http500"
    /\ Len(detections) = 1
    /\ Len(alerts) = 1

\* the causes of failure a caller of analyze_audio is to tell apart
ErrorCauses == {"unsupported_format", "decode", "model_unavailable", "storage"}

\* C14: distinguishable error causes -- the error outcome of a failing
\* analyze_audio call identifies its cause: no other cause among unsupported
\* format, decode failure, model unavailable and storage failure is reported
\* with the same outcome
DistinguishableErrorCauses ==
    (req = "analyze" /\ apc = "done" /\ progress.cause \in ErrorCauses)
        => \A other \in ErrorCauses \ {progress.cause} : result # ErrorResponse(other)

\* C15: the clip is stored before analysis -- in analyze_audio and in each item
\* of analyze_audio_batch, whenever feature extraction has started on a clip that
\* passed validation, the raw clip has been written, so the clip exists when
\* decoding or classification fails
ClipStoredBeforeAnalysis ==
    (req \in {"analyze", "batch"} /\ progress.extracted) => progress.stored

\* C16: batch partial success -- analyze_audio_batch never raises, and of the N
\* files it was given each is counted exactly once, in results or in
\* error_details: processed + errors = N
BatchPartialSuccess ==
    (req = "batch" /\ apc = "done")
        => /\ result = "ok"
           /\ Len(results) + errors = batchSize

\* C17: threat policy totality -- for every label of the fixed set and every
\* confidence, the is_threat that predict returns is true exactly when the label
\* is vessel, blast_fishing or seismic; confidence plays no part
ThreatPolicyTotality ==
    (call.fn = "predict" /\ call.done)
        => /\ call.out.event_type \in
                 {"marine_life", "vessel", "blast_fishing", "seismic", "ambient"}
           /\ call.out.is_threat
                 <=> call.out.event_type \in {"vessel", "blast_fishing", "seismic"}

\* C17 witness: predict returned a threat label with a confidence below the
\* highest there is, and the label is flagged as a threat
ThreatPolicyTotalityWitness ==
    /\ call.fn = "predict"
    /\ call.done
    /\ call.out.event_type = "seismic"
    /\ call.out.confidence < MaxScore
    /\ call.out.is_threat

\* C18: one pipeline-wide feature length -- for every waveform length the vector
\* that extract_features returns has the length predict takes as its input
\* length, so the pad/truncate step of predict leaves the vector as it is
OneFeatureLength ==
    (call.fn = "extract_features" /\ call.done)
        => /\ call.out.length = MODEL_INPUT_LENGTH
           /\ call.out.model_length = call.out.length

\* send_alert was called in this request and is over
SendAlertOver == curAlert > 0 /\ apc \notin {"webhook", "mark_sent", "alert_except"}

\* C19: the delivery outcome decides the status -- with a webhook destination
\* configured, send_alert makes no second delivery attempt for its Alert, marks
\* the Alert sent only after an attempt, and the Alert ends sent if the attempt
\* was answered 2xx, failed if the destination was unreachable, answered non-2xx
\* or timed out
DeliveryOutcomeDecidesStatus ==
    (settings.ALERT_WEBHOOK_URL /\ SendAlertOver)
        => /\ Len(posts) <= 1
           /\ alerts[curAlert].status = "sent" => posts = <<"2xx">>
           /\ posts = <<"2xx">> => alerts[curAlert].status = "sent"
           /\ (posts # <<>> /\ posts[1] \in PostFailures) => alerts[curAlert].status = "failed"

\* C20: pending is durable before delivery -- whenever the webhook delivery
\* attempt of send_alert is under way, the Alert is in the store with status
\* pending, committed, and no attempt was made before the commit
PendingDurableBeforeDelivery ==
    /\ apc = "webhook"
          => /\ curAlert \in 1..Len(alerts)
             /\ alerts[curAlert].status = "pending"
             /\ alerts[curAlert].row = "pending"
    /\ posts # <<>> => (curAlert \in 1..Len(alerts) /\ alerts[curAlert].row # "none")

\* C20 witness: the delivery attempt is awaited (it may hang or the process may
\* crash here) and the pending Alert is committed
PendingDurableBeforeDeliveryWitness ==
    /\ apc = "webhook"
    /\ posts = <<>>
    /\ alerts[curAlert].row = "pending"
    /\ alerts[curAlert].detection_id = curDet

\* C21: resend preserves audit history -- a resend_alert call for a threat
\* Detection adds one new Alert for that Detection, and no step of the call
\* changes any field of an Alert that existed before it
ResendPreservesAuditHistory ==
    /\ []( (req = "resend" /\ apc = "done" /\ result \in {"ok", "http500"})
              => /\ curAlert \in 1..Len(alerts)
                 /\ alerts[curAlert].detection_id = curDet
                 /\ detections[curDet].is_threat )
    /\ [][ req' = "resend"
              => /\ Len(alerts') >= Len(alerts)
                 /\ \A i \in 1..Len(alerts) : i # curAlert' => alerts'[i] = alerts[i]
                 /\ (apc = "send_alert" /\ apc' # "send_alert")
                       => /\ Len(alerts') = Len(alerts) + 1
                          /\ curAlert' = Len(alerts')
                          /\ alerts'[curAlert'].detection_id = curDet ]_vars

\* C21 witness: a resend is over for a Detection whose first Alert had failed;
\* the failed Alert is as it was and a second Alert was sent
ResendPreservesAuditHistoryWitness ==
    /\ req = "resend"
    /\ apc = "done"
    /\ result = "ok"
    /\ Len(alerts) = 2
    /\ alerts[1].detection_id = curDet
    /\ alerts[1].status = "failed"
    /\ alerts[1].row = "failed"
    /\ alerts[2].detection_id = curDet
    /\ alerts[2].status = "sent"

\* C22: disconnect is idempotent -- on a handle that is not registered it raises
\* nothing and leaves the registry as it is; twice on a registered handle is the
\* same as once; the other subscribers keep their place and their entry
DisconnectIdempotent ==
    (call.fn = "disconnect" /\ call.done)
        => LET r == call.registry
               w == call.websocket
               once == call.out.once
               twice == call.out.twice
           IN  /\ ~once.raised
               /\ ~twice.raised
               /\ w \notin Range(r.active_connections) => once = r
               /\ twice = once
               /\ w \notin Range(once.active_connections)
               /\ w \notin DOMAIN once.connection_metadata
               /\ once.active_connections = SelectSeq(r.active_connections, LAMBDA v : v # w)
               /\ \A v \in (DOMAIN r.connection_metadata) \ {w} :
                     /\ v \in DOMAIN once.connection_metadata
                     /\ once.connection_metadata[v] = r.connection_metadata[v]

\* C22 witness: disconnect was called twice on a subscriber registered between
\* two others, and the two others are what is left
DisconnectIdempotentWitness ==
    /\ call.fn = "disconnect"
    /\ call.done
    /\ Len(call.registry.active_connections) = 3
    /\ call.websocket = call.registry.active_connections[2]
    /\ Len(call.out.twice.active_connections) = 2
    /\ ~call.out.twice.raised

\* C23: a ping is answered with a pong -- on /ws and on /ws/detections, whenever
\* the handler of a registered subscriber awaits the next inbound message, every
\* ping it has handled was answered with a pong, keepalive timer fired or not
PingAnsweredWithPong ==
    \A w \in Handles :
        (hpc[w] = "running" /\ handler[w].step = "receive" /\ w \in Range(active_connections))
            => ~handler[w].owed

\* C24: immediate cleanup on disconnect -- once the handler of a subscriber has
\* ended, for whatever reason, the subscriber is not in the registry
CleanupWhenHandlerEnds ==
    \A w \in Handles :
        hpc[w] = "ended"
            => (w \notin Range(active_connections) /\ w \notin DOMAIN connection_metadata)

\* C25: decode and model failures propagate -- when the upload cannot be decoded
\* or no model is loaded, analyze_audio fails to the caller, nothing is
\* classified in place of the clip, and no Detection, no Alert and no event
\* comes of it
DecodeAndModelFailuresPropagate ==
    /\ []( (req = "analyze" /\ progress.cause \in {"decode", "model_unavailable"})
              => /\ apc = "done"
                 /\ result = "http500"
                 /\ ~progress.classified
                 /\ prediction = NoPrediction
                 /\ curDet = 0
                 /\ curAlert = 0
                 /\ published = {}
                 /\ \A w \in Handles : received[w] = <<>> )
    /\ [][ (req' = "analyze" /\ progress'.cause \in {"decode", "model_unavailable"})
              => (detections' = detections /\ alerts' = alerts) ]_vars

\* C25 witness: the clip of an analyze_audio call was stored and could not be
\* decoded; the call failed and the Detection of an earlier request is all the
\* store holds
DecodeAndModelFailuresPropagateWitness ==
    /\ req = "analyze"
    /\ apc = "done"
    /\ progress.cause = "decode"
    /\ progress.stored
    /\ result = "http500"
    /\ Len(detections) = 1
    /\ \E w \in Handles : w \in Range(active_connections)

\* C26: a persistence failure is surfaced and silences notification -- when the
\* Detection cannot be stored after the clip was classified, analyze_audio
\* reports a failure, dispatches no alert and publishes no event; every Alert and
\* every published event refers to a Detection that is in the store
PersistenceFailureSilences ==
    /\ (req = "analyze" /\ progress.cause = "storage")
          => /\ apc = "done"
             /\ result = "http500"
             /\ curDet = 0
             /\ curAlert = 0
             /\ published = {}
             /\ \A w \in Handles : received[w] = <<>>
    /\ \A i \in 1..Len(alerts) : alerts[i].detection_id \in 1..Len(detections)
    /\ \A e \in published : e[2] \in 1..Len(detections)
    /\ \A w \in Handles : \A i \in 1..Len(received[w]) : received[w][i][2] \in 1..Len(detections)

\* C26 witness: a threat clip was classified, alerts are enabled, a subscriber is
\* connected, and the commit of the Detection failed: the call failed and there
\* is no Detection, no Alert and no event
PersistenceFailureSilencesWitness ==
    /\ req = "analyze"
    /\ apc = "done"
    /\ progress.cause = "storage"
    /\ progress.classified
    /\ prediction.is_threat
    /\ settings.ENABLE_ALERTS
    /\ active_connections # <<>>
    /\ detections = <<>>
    /\ alerts = <<>>
    /\ published = {}

\* C27: registry consistency at every interleaving point -- whenever another
\* task can run, active_connections has no duplicates and its members are
\* exactly the websockets that have an entry in connection_metadata
RegistryConsistency ==
    Suspended
        => /\ \A i, j \in 1..Len(active_connections) :
                 active_connections[i] = active_connections[j] => i = j
           /\ Range(active_connections) = DOMAIN connection_metadata

\* C27 witness: a broadcast is suspended in a send after one subscriber has left
\* and another has joined during it, and one send has raised
RegistryConsistencyWitness ==
    /\ apc = "sending"
    /\ bInterfered
    /\ bRaised # {}
    /\ \E w \in Handles : hpc[w] = "ended"
    /\ Len(active_connections) >= 2
    /\ Range(active_connections) # Range(bStart)

\* C28: unique assigned client ids -- the client ids that connect has assigned to
\* the subscribers registered at the same time are pairwise distinct
UniqueClientIds ==
    \A v, w \in DOMAIN connection_metadata :
        v # w => connection_metadata[v] # connection_metadata[w]

\* C29: a live connection is a registered one -- every subscriber whose handler
\* is running is in the registry; a send failure that takes a subscriber out of
\* the registry ends its handler as well
LiveConnectionIsRegistered ==
    \A w \in Handles : hpc[w] = "running" => w \in Range(active_connections)

\* C30: no destination configured -- with no webhook destination, send_alert
\* makes no delivery attempt and the Alert it created ends with status sent: it
\* is neither left pending nor marked failed
NoDestinationEndsSent ==
    (~settings.ALERT_WEBHOOK_URL /\ SendAlertOver /\ alerts[curAlert].created)
        => /\ posts = <<>>
           /\ alerts[curAlert].status = "sent"

====
